---------------------------- MODULE Spec2Model ----------------------------
(***************************************************************************)
(* OpenIrisDPI: the IEC 62471 eye-safety script (IR-Safety/safety-check.py)*)
(* and the OpenIris UDP client (PythonUDP/openiris_udp_client.py).         *)
(*                                                                         *)
(* Numbers.  The script computes in IEEE doubles.  The model carries every *)
(* number as an extended rational <<n, d>> in lowest terms with d >= 0:    *)
(*   d > 0        the rational n/d                                         *)
(*   <<1, 0>>     +inf        <<-1, 0>>   -inf        <<0, 0>>   nan       *)
(* so that +, *, / and < are exact where the double operations are exact   *)
(* up to rounding, and x/0, inf*0, comparisons with nan behave as numpy's  *)
(* do (signed zeros are not distinguished).  The transcendental operations *)
(* (10**x, x**(-4/3), sqrt) are computed in fixed point and rounded to the *)
(* number of decimals stated at each.                                      *)
(***************************************************************************)
EXTENDS Integers, Sequences, FiniteSets, TLC

VARIABLES
    pc,                              \* position in the script / harness
    \* ---- measurement data and tables (inputs of the script)
    measured_power,                  \* W
    w0, w1,                          \* min / max of the illuminator table's wavelengths
    illuminator_interp,              \* illuminator_interp(wavelengths), one value per grid point
    sensor_interp,                   \* sensor_interp(wavelengths), one value per grid point
    sensor_interp_cal,               \* sensor_interp(calibrated_wavelength)
    illuminator_distance,            \* m
    illuminator_diameter,            \* m (replaced by the clamp)
    \* ---- names the script binds, None until bound
    wavelengths,
    sensor_sensitivity,
    denominator,
    scaling_factor_I,
    illuminator_spectral_irradiance,
    total_calculated_irradiance,
    total_ir_irradiance,
    ir_verdict,                      \* "Safe" / "Hazardous" banner printed, "none" before
    safety_margin,
    maximum_exposure_time,
    illuminator_angle,
    illuminator_solid_angle,
    alpha,
    illuminator_spectral_radiance,
    retinal_hazard_limit,
    weighted_retinal_exposure,
    retinal_verdict,
    retinal_safety_margin,
    \* ---- retinal_burn_hazard_function called on its own
    wavelength_nm,                   \* its argument
    r_lambda,                        \* its return value
    \* ---- the UDP client (OpenIrisClient)
    sock,                            \* "open" / "closed" ("none": no client constructed)
    connected,                       \* sock.connect was made
    polls,                           \* per fetch_data call, what the network did
    results                          \* per fetch_data call, what it returned or raised

tableVars == <<measured_power, w0, w1, illuminator_interp, sensor_interp, sensor_interp_cal>>
gridVars == <<wavelengths, sensor_sensitivity>>
scaleVars == <<denominator, scaling_factor_I>>
synthVars == <<illuminator_spectral_irradiance, total_calculated_irradiance>>
irVars == <<ir_verdict, safety_margin, maximum_exposure_time>>
geomVars == <<illuminator_distance, illuminator_diameter, illuminator_angle, alpha>>
retVars == <<retinal_verdict, retinal_safety_margin>>
fnVars == <<wavelength_nm, r_lambda>>
scriptVars == <<measured_power, w0, w1, illuminator_interp, sensor_interp, sensor_interp_cal,
                wavelengths, sensor_sensitivity, denominator, scaling_factor_I,
                illuminator_spectral_irradiance, total_calculated_irradiance,
                total_ir_irradiance, ir_verdict, safety_margin, maximum_exposure_time,
                illuminator_distance, illuminator_diameter, illuminator_angle, alpha,
                illuminator_solid_angle, illuminator_spectral_radiance,
                retinal_hazard_limit, weighted_retinal_exposure,
                retinal_verdict, retinal_safety_margin, wavelength_nm, r_lambda>>
clientVars == <<sock, connected, polls, results>>

vars == <<pc, tableVars, gridVars, scaleVars, synthVars, total_ir_irradiance, irVars,
          geomVars, illuminator_solid_angle, illuminator_spectral_radiance,
          retinal_hazard_limit, weighted_retinal_exposure, retVars, fnVars, clientVars>>

(***************************************************************************)
(* Extended rationals                                                      *)
(***************************************************************************)
None == <<>>                         \* a name the script has not bound

Abs(x) == IF x < 0 THEN -x ELSE x
Sgn(x) == IF x < 0 THEN -1 ELSE IF x > 0 THEN 1 ELSE 0

RECURSIVE GCD(_, _)
GCD(a, b) == IF b = 0 THEN a ELSE GCD(b, a % b)

Q(n, d) ==
    IF d = 0 THEN <<Sgn(n), 0>>
    ELSE LET g == GCD(Abs(n), Abs(d))
             s == IF d < 0 THEN -1 ELSE 1
         IN  <<s * (n \div g), s * (d \div g)>>

QInt(k) == <<k, 1>>
PosInf == <<1, 0>>
NegInf == <<-1, 0>>
NaN == <<0, 0>>

IsNaN(a) == a = NaN
IsFinite(a) == a[2] > 0

QNeg(a) == <<-a[1], a[2]>>

QMul(a, b) ==
    IF a[2] = 0 \/ b[2] = 0 THEN <<Sgn(a[1]) * Sgn(b[1]), 0>>
    ELSE LET g1 == GCD(Abs(a[1]), b[2])
             g2 == GCD(Abs(b[1]), a[2])
         IN  <<(a[1] \div g1) * (b[1] \div g2), (a[2] \div g2) * (b[2] \div g1)>>

QInv(a) ==
    IF a[2] = 0 THEN (IF a[1] = 0 THEN NaN ELSE <<0, 1>>)
    ELSE IF a[1] = 0 THEN PosInf
    ELSE <<Sgn(a[1]) * a[2], Abs(a[1])>>

\* x / 0 is +-inf, 0 / 0 and inf / inf are nan (numpy's float64 division)
QDiv(a, b) ==
    IF a[2] = 0 /\ b[2] = 0 THEN NaN
    ELSE IF a[2] > 0 /\ b[2] > 0 /\ b[1] = 0 THEN <<Sgn(a[1]), 0>>
    ELSE QMul(a, QInv(b))

QAdd(a, b) ==
    IF a[2] = 0 /\ b[2] = 0 THEN (IF a[1] = b[1] THEN a ELSE NaN)
    ELSE IF a[2] = 0 THEN a
    ELSE IF b[2] = 0 THEN b
    ELSE LET g == GCD(a[2], b[2])
         IN  Q(a[1] * (b[2] \div g) + b[1] * (a[2] \div g), (a[2] \div g) * b[2])

QSub(a, b) == QAdd(a, QNeg(b))

\* an/ad < bn/bd for ad, bd > 0, by continued fractions (no products)
RECURSIVE CmpLt(_, _, _, _)
CmpLt(an, ad, bn, bd) ==
    LET qa == an \div ad
        qb == bn \div bd
        ra == an - qa * ad
        rb == bn - qb * bd
    IN  IF qa # qb THEN qa < qb
        ELSE IF rb = 0 THEN FALSE
        ELSE IF ra = 0 THEN TRUE
        ELSE CmpLt(bd, rb, ad, ra)

\* a < b on doubles: FALSE whenever either side is nan
QLt(a, b) ==
    IF IsNaN(a) \/ IsNaN(b) THEN FALSE
    ELSE IF a[2] = 0 THEN a = NegInf /\ b # NegInf
    ELSE IF b[2] = 0 THEN b = PosInf
    ELSE CmpLt(a[1], a[2], b[1], b[2])

QGt(a, b) == QLt(b, a)
QLe(a, b) == ~IsNaN(a) /\ ~IsNaN(b) /\ ~QLt(b, a)
QGe(a, b) == QLe(b, a)

(***************************************************************************)
(* Fixed point, FP units per 1, within 32-bit integers                     *)
(***************************************************************************)
FP == 1000 * 1000

\* floor(a * b / FP) for a, b >= 0, by limbs of 1000
MulFix(a, b) ==
    LET a1 == a \div 1000
        a0 == a % 1000
        b1 == b \div 1000
        b0 == b % 1000
    IN  a1 * b1 + ((a1 * b0 + a0 * b1 + ((a0 * b0) \div 1000)) \div 1000)

(***************************************************************************)
(* Naturals beyond 32 bits: sequences of limbs in base B, lowest first     *)
(***************************************************************************)
B == 100 * 100

\* the limbs of a natural n
RECURSIVE BigOf(_)
BigOf(n) == IF n < B THEN <<n>> ELSE <<n % B>> \o BigOf(n \div B)

\* a without its high zero limbs (zero is <<>>)
RECURSIVE Trim(_)
Trim(a) ==
    IF Len(a) = 0 \/ a[Len(a)] # 0 THEN a ELSE Trim(SubSeq(a, 1, Len(a) - 1))

\* the limbs of the number whose column sums are cols, with carry c coming in
RECURSIVE Carry(_, _)
Carry(cols, c) ==
    IF Len(cols) = 0 THEN (IF c = 0 THEN <<>> ELSE BigOf(c))
    ELSE LET v == Head(cols) + c
         IN  <<v % B>> \o Carry(Tail(cols), v \div B)

Limb(a, i) == IF i >= 1 /\ i <= Len(a) THEN a[i] ELSE 0

BigAdd(a, b) ==
    LET n == IF Len(a) > Len(b) THEN Len(a) ELSE Len(b)
    IN  Trim(Carry([i \in 1..n |-> Limb(a, i) + Limb(b, i)], 0))

\* a - b for a >= b
BigSub(a, b) ==
    LET RECURSIVE S(_, _)
        S(i, borrow) ==
            IF i > Len(a) THEN <<>>
            ELSE LET v == a[i] - Limb(b, i) - borrow
                 IN  IF v < 0 THEN <<v + B>> \o S(i + 1, 1) ELSE <<v>> \o S(i + 1, 0)
    IN  Trim(S(1, 0))

\* a * b, for operands of at most 20 limbs
BigMul(a, b) ==
    LET RECURSIVE Col(_, _)
        Col(k, i) ==
            IF i > Len(a) \/ i > k THEN 0
            ELSE a[i] * Limb(b, k + 1 - i) + Col(k, i + 1)
    IN  IF Len(a) = 0 \/ Len(b) = 0 THEN <<>>
        ELSE Trim(Carry([k \in 1..(Len(a) + Len(b) - 1) |-> Col(k, 1)], 0))

\* floor(a / d) for 0 < d <= 200000
BigDivSmall(a, d) ==
    LET RECURSIVE D(_, _)
        \* the quotient limbs i .. 1 (lowest first), given the remainder from above
        D(i, rem) ==
            IF i = 0 THEN <<>>
            ELSE LET v == rem * B + a[i]
                 IN  D(i - 1, v % d) \o <<v \div d>>
    IN  Trim(D(Len(a), 0))

\* floor(a / B^n)
BigShift(a, n) == IF Len(a) <= n THEN <<>> ELSE SubSeq(a, n + 1, Len(a))

\* a <= b, for trimmed a and b
BigLe(a, b) ==
    LET RECURSIVE Le(_)
        Le(i) == IF i = 0 THEN TRUE
                 ELSE IF a[i] # b[i] THEN a[i] < b[i]
                 ELSE Le(i - 1)
    IN  IF Len(a) # Len(b) THEN Len(a) < Len(b) ELSE Le(Len(a))

\* the natural a, for a < 2^31
RECURSIVE BigToInt(_)
BigToInt(a) == IF Len(a) = 0 THEN 0 ELSE Head(a) + B * BigToInt(Tail(a))

\* fixed point of 16 decimals: B^4 units per 1
ONE16 == <<0, 0, 0, 0, 1>>
LN10 == <<456, 2994, 8509, 3025, 2>>     \* ln 10 = 2.3025850929940456

\* exp(-z) = sum of the even terms of the series minus the sum of the odd ones,
\* given term = z^k / k!, in 16 decimals
RECURSIVE ExpNegSeries(_, _, _, _, _)
ExpNegSeries(z, k, term, even, odd) ==
    IF Len(term) = 0 THEN BigSub(even, odd)
    ELSE LET next == BigDivSmall(BigShift(BigMul(term, z), 4), k + 1)
         IN  IF k % 2 = 0
             THEN ExpNegSeries(z, k + 1, next, BigAdd(even, term), odd)
             ELSE ExpNegSeries(z, k + 1, next, even, BigAdd(odd, term))

\* floor(x * x) in 16 decimals
Square16(x) == BigShift(BigMul(x, x), 4)

\* exp(-z) for z >= 0, in 16 decimals, as exp(-z / 8) ^ 8
ExpNeg(z) ==
    Square16(Square16(Square16(ExpNegSeries(BigDivSmall(z, 8), 0, ONE16, <<>>, <<>>))))

\* 10 ** (-y) for a rational 0 <= y = p/q <= 4 with q <= 200000, rounded to
\* 4 decimals
Pow10Neg(y) ==
    LET z == BigDivSmall(BigMul(BigOf(y[1]), LN10), y[2])
        e == ExpNeg(z)
    IN  Q(BigToInt(BigShift(BigAdd(e, <<0, 0, 5000>>), 3)), 10000)

(***************************************************************************)
(* retinal_burn_hazard_function  (IEC 62471 Table 4.2)                     *)
(***************************************************************************)
\* r_values of the lookup table, in hundredths; wavelength_points[i] = 380 + 5 (i - 1)
r_values_x100 ==
    <<10, 13, 25, 50, 100, 200, 400, 800, 900, 950, 980, 1000, 1000,
      970, 940, 900, 800, 700, 620, 550, 450, 400, 220, 160, 100>>

wavelength_points == [i \in 1..25 |-> 380 + 5 * (i - 1)]

\* np.interp(w, wavelength_points, r_values) for wavelength_points[1] <= w < wavelength_points[25]
Interp(w) ==
    LET j == ((w[1] \div w[2]) - 380) \div 5 + 1
        slope == QDiv(Q(r_values_x100[j + 1] - r_values_x100[j], 100),
                      QInt(wavelength_points[j + 1] - wavelength_points[j]))
    IN  QAdd(QMul(slope, QSub(w, QInt(wavelength_points[j]))), Q(r_values_x100[j], 100))

cond1(w) == QGe(w, QInt(380)) /\ QLt(w, QInt(500))
\* mutant: the closed range [500, 700] taken half-open
cond2_open(w) == QGe(w, QInt(500)) /\ QLt(w, QInt(700))
cond2(w) == QGe(w, QInt(500)) /\ QLe(w, QInt(700))
cond3(w) == QGt(w, QInt(700)) /\ QLe(w, QInt(1050))
\* mutant: 1050 nm taken into the 0.2 plateau
cond4_closed(w) == QGe(w, QInt(1050)) /\ QLe(w, QInt(1150))
cond4(w) == QGt(w, QInt(1050)) /\ QLe(w, QInt(1150))
cond5(w) == QGt(w, QInt(1150)) /\ QLe(w, QInt(1200))
cond6(w) == QGt(w, QInt(1200)) /\ QLe(w, QInt(1400))

\* mutant: the exponent's origin mistyped
Range3_shift(w) == Pow10Neg(QDiv(QSub(w, QInt(600)), QInt(500)))

\* line 380: 10 ** ((700 - w) / 500)
Range3(w) == Pow10Neg(QDiv(QSub(w, QInt(700)), QInt(500)))

\* line 388: 0.2 * 10 ** (0.02 * (1150 - w))
Range5(w) == QMul(Q(2, 10), Pow10Neg(QMul(Q(2, 100), QSub(w, QInt(1150)))))

\* one element of r_lambda: zeros_like, then the six masked assignments in order
RElem(w) ==
    LET r0 == QInt(0)
        r1 == IF cond1(w) THEN Interp(w) ELSE r0
        r2 == IF cond2(w) THEN QInt(1) ELSE r1
        r3 == IF cond3(w) THEN Range3(w) ELSE r2
        r4 == IF cond4(w) THEN Q(2, 10) ELSE r3
        r5 == IF cond5(w) THEN Range5(w) ELSE r4
        r6 == IF cond6(w) THEN Q(2, 100) ELSE r5
    IN  r6

\* an ndarray: ndim 0 (np.asarray of a scalar) or 1, and its elements
Scalar(w) == [ndim |-> 0, data |-> <<w>>]
Array(ws) == [ndim |-> 1, data |-> ws]

\* how many of mask[1..i] are True
RECURSIVE Rank(_, _)
Rank(mask, i) ==
    IF i = 0 THEN 0 ELSE Rank(mask, i - 1) + (IF mask[i] THEN 1 ELSE 0)

\* xs[mask] for a boolean array mask
RECURSIVE Select(_, _)
Select(xs, mask) ==
    IF Len(xs) = 0 THEN <<>>
    ELSE (IF Head(mask) THEN <<Head(xs)>> ELSE <<>>) \o Select(Tail(xs), Tail(mask))

\* mutant: every selected position receives the first computed value
Put_first(r, mask, vals) ==
    [i \in 1..Len(r) |-> IF mask[i] THEN vals[1] ELSE r[i]]

\* r[mask] = vals, vals an array with one value per True of mask
Put(r, mask, vals) ==
    [i \in 1..Len(r) |-> IF mask[i] THEN vals[Rank(mask, i)] ELSE r[i]]

\* r[mask] = v, v a single value
Fill(r, mask, v) == [i \in 1..Len(r) |-> IF mask[i] THEN v ELSE r[i]]

\* np.asarray(x) is never an int or a float, so the function returns the
\* ndarray r_lambda for a scalar argument too (a 0-d array)
retinal_burn_hazard_function(x) ==
    LET w == x.data
        I == 1..Len(w)
        m1 == [i \in I |-> cond1(w[i])]
        m2 == [i \in I |-> cond2(w[i])]
        m3 == [i \in I |-> cond3(w[i])]
        m4 == [i \in I |-> cond4(w[i])]
        m5 == [i \in I |-> cond5(w[i])]
        m6 == [i \in I |-> cond6(w[i])]
        w1s == Select(w, m1)
        w3s == Select(w, m3)
        w5s == Select(w, m5)
        r0 == [i \in I |-> QInt(0)]
        r1 == Put(r0, m1, [k \in 1..Len(w1s) |-> Interp(w1s[k])])
        r2 == Fill(r1, m2, QInt(1))
        r3 == Put(r2, m3, [k \in 1..Len(w3s) |-> Range3(w3s[k])])
        r4 == Fill(r3, m4, Q(2, 10))
        r5 == Put(r4, m5, [k \in 1..Len(w5s) |-> Range5(w5s[k])])
        r6 == Fill(r5, m6, Q(2, 100))
    IN  [ndim |-> x.ndim, data |-> r6]

(***************************************************************************)
(* Arrays                                                                  *)
(***************************************************************************)
\* mutant: the grid closed at its upper end
Arange_closed(a, b, step) ==
    LET n == IF b >= a THEN (b - a) \div step + 1 ELSE 0
    IN  [i \in 1..n |-> QInt(a + (i - 1) * step)]

\* np.arange(a, b, step) for integers a, b and step > 0: a, a + step, ... < b
Arange(a, b, step) ==
    LET n == IF b > a THEN (b - a + step - 1) \div step ELSE 0
    IN  [i \in 1..n |-> QInt(a + (i - 1) * step)]

\* np.sum(xs)
RECURSIVE QSum(_)
QSum(xs) == IF Len(xs) = 0 THEN QInt(0) ELSE QAdd(Head(xs), QSum(Tail(xs)))

\* np.dot(xs, ys)
Dot(xs, ys) == QSum([i \in 1..Len(xs) |-> QMul(xs[i], ys[i])])

(***************************************************************************)
(* Sensor calibration and spectral irradiance                              *)
(***************************************************************************)
dw == 5                              \* nm
calibrated_wavelength == 940         \* nm
irradiance_limit_indefinite == 100   \* W/m^2

\* np.pi * (sensor_diameter / 2) ** 2 with sensor_diameter = 9.7e-3 is the double
\* 7.389811319e-5; 7/94725 = 7.389812615e-5 is its continued-fraction
\* convergent, equal to it to 1.8 parts in 10^7
sensor_area == Q(7, 94725)

\* mutant: the sensor area left out of the integral term
Denominator_noarea(illum, sens) == QMul(Dot(illum, sens), QInt(dw))

Denominator(illum, sens) == QMul(QMul(Dot(illum, sens), QInt(dw)), sensor_area)

ScalingFactor(power, den) == QDiv(power, den)

SpectralIrradiance(I, illum) == [i \in 1..Len(illum) |-> QMul(I, illum[i])]

TotalIrradiance(irr) == QMul(QSum(irr), QInt(dw))

(***************************************************************************)
(* Infrared radiation hazard (IEC 62471, 4.3.7)                            *)
(***************************************************************************)
ir_wavelength_mask(ws) ==
    [i \in 1..Len(ws) |-> QGe(ws[i], QInt(700)) /\ QLe(ws[i], QInt(3000))]

TotalIRIrradiance(irr, ws) == QMul(QSum(Select(irr, ir_wavelength_mask(ws))), QInt(dw))

\* mutant: the limit itself counted as safe
IRSafe_le(total) == QLe(total, QInt(irradiance_limit_indefinite))

IRSafe(total) == QLt(total, QInt(irradiance_limit_indefinite))

\* mutant: the ratio inverted
SafetyMargin_inv(total) == QDiv(total, QInt(irradiance_limit_indefinite))

SafetyMargin(total) == QDiv(QInt(irradiance_limit_indefinite), total)

\* the largest n in lo .. hi - 1 with (2 n - 1)^3 * a4 <= rhs, given that lo is one
RECURSIVE RoundBisect(_, _, _, _)
RoundBisect(a4, rhs, lo, hi) ==
    IF hi - lo <= 1 THEN lo
    ELSE LET mid == (lo + hi) \div 2
             m == BigOf(2 * mid - 1)
         IN  IF BigLe(BigMul(BigMul(BigMul(m, m), m), a4), rhs)
             THEN RoundBisect(a4, rhs, mid, hi)
             ELSE RoundBisect(a4, rhs, lo, mid)

\* x ** (-4/3) on doubles, rounded to 2 decimals.  For a finite x = a/b > 0 the
\* value t = (b/a)^(4/3) rounds to n/100 for the largest n with
\* ((2 n - 1) / 200)^3 <= (b/a)^4; for t < 5000000
PowNeg43(x) ==
    IF IsNaN(x) THEN NaN
    ELSE IF x = PosInf \/ x = NegInf THEN QInt(0)
    ELSE IF x[1] < 0 THEN NaN
    ELSE IF x[1] = 0 THEN PosInf
    ELSE LET a == BigOf(x[1])
             b == BigOf(x[2])
             a2 == BigMul(a, a)
             b2 == BigMul(b, b)
             rhs == BigMul(BigOf(8 * FP), BigMul(b2, b2))
         IN  Q(RoundBisect(BigMul(a2, a2), rhs, 0, 1000 * FP), 100)

\* mutant: exponent -1 for -4/3
MaximumExposureTime_inv(total) == QDiv(QInt(18000), total)

MaximumExposureTime(total) == PowNeg43(QDiv(total, QInt(18000)))

(***************************************************************************)
(* Illuminator geometry                                                    *)
(***************************************************************************)
min_angle == Q(11, 1000)             \* 0.011 rad

\* mutant: the clamp replaces the angle and keeps the diameter
AngularSubtense_keep(diameter, distance) ==
    LET raw == QDiv(diameter, distance)
    IN  IF QLt(raw, min_angle)
        THEN [angle |-> min_angle, diameter |-> diameter]
        ELSE [angle |-> raw, diameter |-> diameter]

\* lines 416-423: the angle and the (possibly replaced) diameter
AngularSubtense(diameter, distance) ==
    LET raw == QDiv(diameter, distance)
    IN  IF QLt(raw, min_angle)
        THEN [angle |-> min_angle, diameter |-> QMul(min_angle, distance)]
        ELSE [angle |-> raw, diameter |-> diameter]

G == 1000 * 1000 * 1000              \* fixed point of 9 decimals
TWO_PI == 6283185                    \* 2 * np.pi in FP units

\* floor(a * b / G) for 0 <= a, b < 2 G, by limbs of 1000
MulFix9(a, b) ==
    LET a2 == a \div FP
        a1 == (a \div 1000) % 1000
        a0 == a % 1000
        b2 == b \div FP
        b1 == (b \div 1000) % 1000
        b0 == b % 1000
        x == a2 * b0 + a1 * b1 + a0 * b2
        y == a1 * b0 + a0 * b1
        z == a0 * b0
    IN  a2 * b2 * 1000 + a2 * b1 + a1 * b2 + ((x + ((y + (z \div 1000)) \div 1000)) \div 1000)

\* floor(n * G / d) for 0 <= n < 2 d, 0 < d < 2000000
ToFix9(n, d) ==
    LET r0 == n % d
        r1 == (r0 * 1000) % d
        r2 == (r1 * 1000) % d
    IN  (n \div d) * G + ((r0 * 1000) \div d) * FP + ((r1 * 1000) \div d) * 1000
            + ((r2 * 1000) \div d)

\* the largest y in lo .. hi - 1 with y * y * v <= 1 (G units), given that lo is one
RECURSIVE InvSqrtBisect(_, _, _)
InvSqrtBisect(v, lo, hi) ==
    IF hi - lo <= 1 THEN lo
    ELSE LET mid == (lo + hi) \div 2
         IN  IF MulFix9(MulFix9(mid, mid), v) <= G
             THEN InvSqrtBisect(v, mid, hi)
             ELSE InvSqrtBisect(v, lo, mid)

\* x in G units rounded to three significant digits, as a rational
RECURSIVE RoundSig3(_, _)
RoundSig3(x, unit) ==
    IF x < 1000 * unit \/ unit = FP THEN Q(((x + (unit \div 2)) \div unit) * unit, G)
    ELSE RoundSig3(x, unit * 10)

\* 2 pi (1 - distance / sqrt(distance^2 + (diameter/2)^2)), with
\* distance / sqrt(distance^2 + r^2) taken as 1 / sqrt(1 + (r/distance)^2);
\* for 0 <= diameter <= distance, to three significant digits
SolidAngle(distance, diameter) ==
    LET t == QDiv(QDiv(diameter, QInt(2)), distance)
        t9 == ToFix9(t[1], t[2])
        v == G + MulFix9(t9, t9)
        y == InvSqrtBisect(v, 0, G + 1)
    IN  RoundSig3(MulFix(G - y, TWO_PI), 1)

SpectralRadiance(irr, omega) == [i \in 1..Len(irr) |-> QDiv(irr[i], omega)]

(***************************************************************************)
(* Retinal burn hazard (IEC 62471, 4.3.6)                                  *)
(***************************************************************************)
\* mutant: the angle multiplied in
RetinalHazardLimit_times(a) == QMul(QInt(6000), a)

RetinalHazardLimit(a) == QDiv(QInt(6000), a)

retinal_wavelength_mask(ws) ==
    [i \in 1..Len(ws) |-> QGe(ws[i], QInt(780)) /\ QLe(ws[i], QInt(1400))]

WeightedRetinalExposure(rad, ws) ==
    LET mask == retinal_wavelength_mask(ws)
        retinal_wavelengths == Select(ws, mask)
        retinal_radiance == Select(rad, mask)
        retinal_weighting == retinal_burn_hazard_function(Array(retinal_wavelengths)).data
    IN  QMul(Dot(retinal_radiance, retinal_weighting), QInt(dw))

RetinalSafe(weighted, limit) == QLt(weighted, limit)

RetinalSafetyMargin(weighted, limit) == QDiv(limit, weighted)

(***************************************************************************)
(* The script, section by section                                          *)
(***************************************************************************)
\* lines 143-160: the wavelength grid and the normalized sensor sensitivity
DefineGrid ==
    /\ pc = "grid"
    /\ wavelengths' = Arange(w0, w1, dw)
    /\ sensor_sensitivity' =
           [i \in 1..Len(sensor_interp) |-> QDiv(sensor_interp[i], sensor_interp_cal)]
    /\ pc' = "scale"
    /\ UNCHANGED <<clientVars, tableVars, scaleVars, synthVars, total_ir_irradiance, irVars, geomVars,
                   illuminator_solid_angle, illuminator_spectral_radiance,
                   retinal_hazard_limit, weighted_retinal_exposure, retVars, fnVars>>

\* lines 238-242
Scale ==
    /\ pc = "scale"
    /\ denominator' = Denominator(illuminator_interp, sensor_sensitivity)
    /\ scaling_factor_I' = ScalingFactor(measured_power, denominator')
    /\ pc' = "synthesize"
    /\ UNCHANGED <<clientVars, tableVars, gridVars, synthVars, total_ir_irradiance, irVars, geomVars,
                   illuminator_solid_angle, illuminator_spectral_radiance,
                   retinal_hazard_limit, weighted_retinal_exposure, retVars, fnVars>>

\* lines 248-252
Synthesize ==
    /\ pc = "synthesize"
    /\ illuminator_spectral_irradiance' =
           SpectralIrradiance(scaling_factor_I, illuminator_interp)
    /\ total_calculated_irradiance' = TotalIrradiance(illuminator_spectral_irradiance')
    /\ pc' = "ir_sum"
    /\ UNCHANGED <<clientVars, tableVars, gridVars, scaleVars, total_ir_irradiance, irVars, geomVars,
                   illuminator_solid_angle, illuminator_spectral_radiance,
                   retinal_hazard_limit, weighted_retinal_exposure, retVars, fnVars>>

\* lines 288-290
SumIR ==
    /\ pc = "ir_sum"
    /\ total_ir_irradiance' = TotalIRIrradiance(illuminator_spectral_irradiance, wavelengths)
    /\ pc' = "ir_verdict"
    /\ UNCHANGED <<clientVars, tableVars, gridVars, scaleVars, synthVars, irVars, geomVars,
                   illuminator_solid_angle, illuminator_spectral_radiance,
                   retinal_hazard_limit, weighted_retinal_exposure, retVars, fnVars>>

\* lines 296-310
EvaluateIR ==
    /\ pc = "ir_verdict"
    /\ IF IRSafe(total_ir_irradiance)
       THEN /\ safety_margin' = SafetyMargin(total_ir_irradiance)
            /\ ir_verdict' = "Safe"
            /\ UNCHANGED maximum_exposure_time
       ELSE /\ maximum_exposure_time' = MaximumExposureTime(total_ir_irradiance)
            /\ ir_verdict' = "Hazardous"
            /\ UNCHANGED safety_margin
    /\ pc' = "clamp"
    /\ UNCHANGED <<clientVars, tableVars, gridVars, scaleVars, synthVars, total_ir_irradiance, geomVars,
                   illuminator_solid_angle, illuminator_spectral_radiance,
                   retinal_hazard_limit, weighted_retinal_exposure, retVars, fnVars>>

\* mutant: the angle is clamped, the diameter is left as measured
Clamp_angle_only ==
    /\ pc = "clamp"
    /\ LET g == AngularSubtense(illuminator_diameter, illuminator_distance)
       IN  /\ illuminator_angle' = g.angle
           /\ illuminator_diameter' = illuminator_diameter
    /\ pc' = "solid_angle"
    /\ UNCHANGED <<clientVars, tableVars, gridVars, scaleVars, synthVars, total_ir_irradiance, irVars,
                   illuminator_distance, alpha,
                   illuminator_solid_angle, illuminator_spectral_radiance,
                   retinal_hazard_limit, weighted_retinal_exposure, retVars, fnVars>>

\* lines 414-423
Clamp ==
    /\ pc = "clamp"
    /\ LET g == AngularSubtense(illuminator_diameter, illuminator_distance)
       IN  /\ illuminator_angle' = g.angle
           /\ illuminator_diameter' = g.diameter
    /\ pc' = "solid_angle"
    /\ UNCHANGED <<clientVars, tableVars, gridVars, scaleVars, synthVars, total_ir_irradiance, irVars,
                   illuminator_distance, alpha,
                   illuminator_solid_angle, illuminator_spectral_radiance,
                   retinal_hazard_limit, weighted_retinal_exposure, retVars, fnVars>>

\* lines 425-429
ComputeSolidAngle ==
    /\ pc = "solid_angle"
    /\ illuminator_solid_angle' = SolidAngle(illuminator_distance, illuminator_diameter)
    /\ alpha' = illuminator_angle
    /\ pc' = "radiance"
    /\ UNCHANGED <<clientVars, tableVars, gridVars, scaleVars, synthVars, total_ir_irradiance, irVars,
                   illuminator_distance, illuminator_diameter, illuminator_angle,
                   illuminator_spectral_radiance,
                   retinal_hazard_limit, weighted_retinal_exposure, retVars, fnVars>>

\* line 437
Radiance ==
    /\ pc = "radiance"
    /\ illuminator_spectral_radiance' =
           SpectralRadiance(illuminator_spectral_irradiance, illuminator_solid_angle)
    /\ pc' = "retinal_limit"
    /\ UNCHANGED <<clientVars, tableVars, gridVars, scaleVars, synthVars, total_ir_irradiance, irVars,
                   geomVars, illuminator_solid_angle,
                   retinal_hazard_limit, weighted_retinal_exposure, retVars, fnVars>>

\* line 466
RetinalLimit ==
    /\ pc = "retinal_limit"
    /\ retinal_hazard_limit' = RetinalHazardLimit(alpha)
    /\ pc' = "retinal_sum"
    /\ UNCHANGED <<clientVars, tableVars, gridVars, scaleVars, synthVars, total_ir_irradiance, irVars,
                   geomVars, illuminator_solid_angle, illuminator_spectral_radiance,
                   weighted_retinal_exposure, retVars, fnVars>>

\* lines 470-476
RetinalSum ==
    /\ pc = "retinal_sum"
    /\ weighted_retinal_exposure' =
           WeightedRetinalExposure(illuminator_spectral_radiance, wavelengths)
    /\ pc' = "retinal_verdict"
    /\ UNCHANGED <<clientVars, tableVars, gridVars, scaleVars, synthVars, total_ir_irradiance, irVars,
                   geomVars, illuminator_solid_angle, illuminator_spectral_radiance,
                   retinal_hazard_limit, retVars, fnVars>>

\* mutant: the Hazardous branch reports an exposure time, as the infrared one does
EvaluateRetinal_time ==
    /\ pc = "retinal_verdict"
    /\ IF RetinalSafe(weighted_retinal_exposure, retinal_hazard_limit)
       THEN /\ retinal_safety_margin' =
                   RetinalSafetyMargin(weighted_retinal_exposure, retinal_hazard_limit)
            /\ retinal_verdict' = "Safe"
            /\ UNCHANGED maximum_exposure_time
       ELSE /\ retinal_verdict' = "Hazardous"
            /\ maximum_exposure_time' = QInt(0)
            /\ UNCHANGED retinal_safety_margin
    /\ pc' = "done"
    /\ UNCHANGED <<clientVars, tableVars, gridVars, scaleVars, synthVars, total_ir_irradiance,
                   ir_verdict, safety_margin,
                   geomVars, illuminator_solid_angle, illuminator_spectral_radiance,
                   retinal_hazard_limit, weighted_retinal_exposure, fnVars>>

\* lines 481-493
EvaluateRetinal ==
    /\ pc = "retinal_verdict"
    /\ IF RetinalSafe(weighted_retinal_exposure, retinal_hazard_limit)
       THEN /\ retinal_safety_margin' =
                   RetinalSafetyMargin(weighted_retinal_exposure, retinal_hazard_limit)
            /\ retinal_verdict' = "Safe"
       ELSE /\ retinal_verdict' = "Hazardous"
            /\ UNCHANGED retinal_safety_margin
    /\ pc' = "done"
    /\ UNCHANGED <<clientVars, tableVars, gridVars, scaleVars, synthVars, total_ir_irradiance, irVars,
                   geomVars, illuminator_solid_angle, illuminator_spectral_radiance,
                   retinal_hazard_limit, weighted_retinal_exposure, fnVars>>

\* retinal_burn_hazard_function(wavelength_nm), lines 339-397
CallR ==
    /\ pc = "R_call"
    /\ r_lambda' = retinal_burn_hazard_function(wavelength_nm)
    /\ pc' = "R_return"
    /\ UNCHANGED <<clientVars, tableVars, gridVars, scaleVars, synthVars, total_ir_irradiance, irVars,
                   geomVars, illuminator_solid_angle, illuminator_spectral_radiance,
                   retinal_hazard_limit, weighted_retinal_exposure, retVars, wavelength_nm>>

(***************************************************************************)
(* Initial states                                                          *)
(***************************************************************************)
TablesUnread ==
    /\ measured_power = None
    /\ w0 = None
    /\ w1 = None
    /\ illuminator_interp = None
    /\ sensor_interp = None
    /\ sensor_interp_cal = None

CalibrationUnbound ==
    /\ sensor_sensitivity = None
    /\ denominator = None
    /\ scaling_factor_I = None

IRUnbound ==
    /\ total_ir_irradiance = None
    /\ ir_verdict = "none"
    /\ safety_margin = None
    /\ maximum_exposure_time = None

GeometryUnbound ==
    /\ illuminator_angle = None
    /\ illuminator_solid_angle = None
    /\ alpha = None

RetinalUnbound ==
    /\ retinal_hazard_limit = None
    /\ weighted_retinal_exposure = None
    /\ retinal_verdict = "none"
    /\ retinal_safety_margin = None

ClientAbsent ==
    /\ sock = "none"
    /\ connected = FALSE
    /\ polls = <<>>
    /\ results = <<>>

FunctionIdle ==
    /\ wavelength_nm = None
    /\ r_lambda = None

\* ---- the whole script
GridStarts == {695, 775, 935, 1395, 2995}
GridSpans == {5, 10, 11}
RelativeIntensities == {QInt(0), QInt(1), QInt(-1)}
\* a spline as <<its values at the grid points away from calibrated_wavelength,
\* its value at calibrated_wavelength>>
SensorTables ==
    {<<<<QInt(1), QInt(1), QInt(1)>>, QInt(1)>>,
     <<<<QInt(1), QInt(2), QInt(2)>>, QInt(2)>>,
     <<<<QInt(1), QInt(1), QInt(1)>>, QInt(0)>>}
eye_power == Q(35, 10000)            \* W
\* the power the script binds to measured_power (eye_power; face_power is only
\* printed), and powers
\* that put k W/m^2 on sensor_area, k = 50, 100, 200
Powers ==
    {eye_power} \cup {QMul(QInt(k), sensor_area) : k \in {50, 100, 200}}
\* <<distance, diameter>>: 0.1 rad, 0.004 rad (clamped), 0.011 rad
Geometries == {<<Q(1, 2), Q(1, 20)>>, <<QInt(1), Q(1, 250)>>, <<Q(1, 2), Q(11, 2000)>>}

\* sensor_interp(ws): one spline gives one value at each wavelength, so a grid
\* point at calibrated_wavelength carries the value of sensor_interp(940)
SensorOnGrid(tab, ws) ==
    [i \in 1..Len(ws) |->
        IF ws[i] = QInt(calibrated_wavelength) THEN tab[2] ELSE tab[1][i]]

Init ==
    /\ pc = "grid"
    /\ measured_power \in Powers
    /\ w0 \in GridStarts
    /\ \E span \in GridSpans : w1 = w0 + span
    /\ illuminator_interp \in [1..Len(Arange(w0, w1, dw)) -> RelativeIntensities]
    /\ \E tab \in SensorTables :
           /\ sensor_interp = SensorOnGrid(tab, Arange(w0, w1, dw))
           /\ sensor_interp_cal = tab[2]
    /\ \E g \in Geometries :
           /\ illuminator_distance = g[1]
           /\ illuminator_diameter = g[2]
    /\ wavelengths = None
    /\ CalibrationUnbound
    /\ illuminator_spectral_irradiance = None
    /\ total_calculated_irradiance = None
    /\ IRUnbound
    /\ GeometryUnbound
    /\ illuminator_spectral_radiance = None
    /\ RetinalUnbound
    /\ FunctionIdle
    /\ ClientAbsent

Next ==
    \/ DefineGrid
    \/ Scale
    \/ Synthesize
    \/ SumIR
    \/ EvaluateIR
    \/ Clamp
    \/ ComputeSolidAngle
    \/ Radiance
    \/ RetinalLimit
    \/ RetinalSum
    \/ EvaluateRetinal

Spec == Init /\ [][Next]_vars

\* ---- retinal_burn_hazard_function on drawn wavelengths
WRes == 2                            \* wavelengths are drawn in steps of 1/WRes nm
WLo == 370
WHi == 1410

ScalarWavelengths ==
    {Q(i, WRes) : i \in (WLo * WRes)..(WHi * WRes)} \cup {PosInf, NegInf, NaN}

ProbeWavelengths ==
    {QInt(375), QInt(380), QInt(500), QInt(700), Q(700 * WRes + 1, WRes),
     QInt(1050), Q(1050 * WRes + 1, WRes), QInt(1200), QInt(1400),
     Q(1400 * WRes + 1, WRes)}

RInputs ==
    {Scalar(w) : w \in ScalarWavelengths}
        \cup {Array(<<a, b>>) : a \in ProbeWavelengths, b \in ProbeWavelengths}

InitR ==
    /\ pc = "R_call"
    /\ wavelength_nm \in RInputs
    /\ r_lambda = None
    /\ TablesUnread
    /\ wavelengths = None
    /\ CalibrationUnbound
    /\ illuminator_spectral_irradiance = None
    /\ total_calculated_irradiance = None
    /\ IRUnbound
    /\ illuminator_distance = None
    /\ illuminator_diameter = None
    /\ GeometryUnbound
    /\ illuminator_spectral_radiance = None
    /\ RetinalUnbound
    /\ ClientAbsent

NextR == CallR

SpecR == InitR /\ [][NextR]_vars

\* ---- the infrared evaluation on drawn spectral irradiance arrays
MaxIrrHalf == 40                     \* samples are k/2 W/m^2/nm, k <= MaxIrrHalf

IrradianceSamples ==
    {Q(k, 2) : k \in 0..MaxIrrHalf} \cup {QInt(-1), PosInf, NaN}

InitIR ==
    /\ pc = "ir_sum"
    /\ wavelengths = Arange(895, 905, dw)
    /\ illuminator_spectral_irradiance \in [1..2 -> IrradianceSamples]
    /\ total_calculated_irradiance = TotalIrradiance(illuminator_spectral_irradiance)
    /\ TablesUnread
    /\ CalibrationUnbound
    /\ IRUnbound
    /\ illuminator_distance = None
    /\ illuminator_diameter = None
    /\ GeometryUnbound
    /\ illuminator_spectral_radiance = None
    /\ RetinalUnbound
    /\ FunctionIdle
    /\ ClientAbsent

NextIR == SumIR \/ EvaluateIR

SpecIR == InitIR /\ [][NextIR]_vars

\* ---- the retinal evaluation on drawn radiance arrays and angles
Alphas == {Q(11, 1000), Q(1, 20), Q(1, 10)}

\* values a double holds exactly (at 0.1 rad the limit 60000 is met exactly)
RadianceSamples ==
    {QInt(0), QInt(50000), QInt(60000), QInt(500000), QInt(550000), QInt(600000),
     PosInf, NaN}

\* R is 0.2 on the first grid, so that the weighted sum is the sum of the radiances
RetinalGrids == {Arange(1100, 1105, dw), Arange(1100, 1110, dw), Arange(775, 785, dw)}

InitRetinal ==
    /\ pc = "retinal_limit"
    /\ alpha \in Alphas
    /\ wavelengths \in RetinalGrids
    /\ illuminator_spectral_radiance \in [1..Len(wavelengths) -> RadianceSamples]
    /\ TablesUnread
    /\ CalibrationUnbound
    /\ illuminator_spectral_irradiance = None
    /\ total_calculated_irradiance = None
    /\ IRUnbound
    /\ illuminator_distance = None
    /\ illuminator_diameter = None
    /\ illuminator_angle = alpha
    /\ illuminator_solid_angle = None
    /\ RetinalUnbound
    /\ FunctionIdle
    /\ ClientAbsent

NextRetinal == RetinalLimit \/ RetinalSum \/ EvaluateRetinal

SpecRetinal == InitRetinal /\ [][NextRetinal]_vars

\* ---- the geometry on drawn distances and diameters
MaxDiameterMm == 60

Distances == {Q(1, 4), Q(1, 2), QInt(1), QInt(2)}
Diameters == {Q(k, 1000) : k \in 1..MaxDiameterMm}

InitGeom ==
    /\ pc = "clamp"
    /\ illuminator_distance \in Distances
    /\ illuminator_diameter \in Diameters
    /\ GeometryUnbound
    /\ TablesUnread
    /\ wavelengths = None
    /\ CalibrationUnbound
    /\ illuminator_spectral_irradiance = None
    /\ total_calculated_irradiance = None
    /\ IRUnbound
    /\ illuminator_spectral_radiance = None
    /\ RetinalUnbound
    /\ FunctionIdle
    /\ ClientAbsent

NextGeom == Clamp \/ ComputeSolidAngle

SpecGeom == InitGeom /\ [][NextGeom]_vars

(***************************************************************************)
(* The OpenIris UDP client  (PythonUDP/openiris_udp_client.py)             *)
(***************************************************************************)
\* what a call does: return val (exc = "none") or raise exc
Return(v) == [exc |-> "none", val |-> v]
Raise(e) == [exc |-> e, val |-> "-"]

\* a JSON document: null, or an object given by its members
Null == [null |-> TRUE, members |-> [k \in {} |-> 0]]
Object(m) == [null |-> FALSE, members |-> m]
EmptyObject == Object([k \in {} |-> 0])

\* Python truth of a parsed document: None and {} are false
Truthy(v) == ~v.null /\ DOMAIN v.members # {}
Has(v, k) == k \in DOMAIN v.members

Point(x, y) == [x |-> x, y |-> y]

\* lines 78-85
DefaultEyeData ==
    [frame_number |-> 0, pupil |-> Point(0, 0), pupil_area |-> 0,
     cr |-> Point(0, 0), p4 |-> Point(0, 0),
     cr_error |-> "No Data", p4_error |-> "No Data"]

\* EyeData.__init__, lines 61-85
EyeData(struct) ==
    IF ~Truthy(struct) THEN Return(DefaultEyeData)
    ELSE IF ~({"FrameNumber", "Pupil", "CRs"} \subseteq DOMAIN struct.members)
    THEN Raise("KeyError")
    ELSE LET m == struct.members
             CRs == m.CRs
         IN  Return(
               [frame_number |-> m.FrameNumber,
                pupil |-> Point(m.Pupil.Center.X, m.Pupil.Center.Y),
                pupil_area |-> m.Pupil.Size.Width * m.Pupil.Size.Height,
                cr |-> IF Len(CRs) > 0 THEN Point(CRs[1].X, CRs[1].Y) ELSE Point(0, 0),
                cr_error |-> IF Len(CRs) > 0 THEN "" ELSE "No CRs",
                p4 |-> IF Len(CRs) >= 4 THEN Point(CRs[4].X, CRs[4].Y) ELSE Point(0, 0),
                p4_error |-> IF Len(CRs) >= 4 THEN "" ELSE "No P4"])

\* EyesData.__init__, lines 96-104
EyesData(struct) ==
    IF ~Truthy(struct)
    THEN Return([left |-> EyeData(EmptyObject).val, right |-> EyeData(EmptyObject).val,
                 error |-> "No Data"])
    ELSE IF ~Has(struct, "Left") THEN Raise("KeyError")
    ELSE LET left == EyeData(struct.members.Left)
         IN  IF left.exc # "none" THEN left
             ELSE IF ~Has(struct, "Right") THEN Raise("KeyError")
             ELSE LET right == EyeData(struct.members.Right)
                  IN  IF right.exc # "none" THEN right
                      ELSE Return([left |-> left.val, right |-> right.val, error |-> ""])

\* a str: well-formed JSON text of a document, or text json.loads rejects
Text(v) == [wellformed |-> TRUE, value |-> v]
Malformed == [wellformed |-> FALSE, value |-> Null]

\* a datagram's bytes: the UTF-8 encoding of a text, or bytes that are not UTF-8
Bytes(t) == [utf8 |-> TRUE, text |-> t]
NotUtf8 == [utf8 |-> FALSE, text |-> Malformed]

\* bytes.decode("utf-8")
decode(b) == IF b.utf8 THEN Return(b.text) ELSE Raise("UnicodeDecodeError")

\* json.loads
json_loads(t) == IF t.wellformed THEN Return(t.value) ELSE Raise("JSONDecodeError")

\* what the network does during one poll: sendto raises or not, then recvfrom
\* raises (socket.timeout, ConnectionRefusedError) or delivers a datagram
SendFails == [send |-> "OSError", recv |-> "-", data |-> NotUtf8]
RecvFails(e) == [send |-> "ok", recv |-> e, data |-> NotUtf8]
Delivers(b) == [send |-> "ok", recv |-> "ok", data |-> b]

\* the exception that ends the try block of fetch_data_raw, "none" if none does
TryOutcome(s, net) ==
    IF s # "open" THEN "OSError"                  \* sendto on a closed socket
    ELSE IF net.send # "ok" THEN net.send
    ELSE IF net.recv # "ok" THEN net.recv
    ELSE decode(net.data).exc

\* mutant: no except clause, the exception leaves fetch_data_raw
fetch_data_raw_propagate(s, net) ==
    IF TryOutcome(s, net) = "none" THEN decode(net.data)
    ELSE Raise(TryOutcome(s, net))

\* lines 139-148
fetch_data_raw(s, net) ==
    IF TryOutcome(s, net) = "none" THEN decode(net.data)
    ELSE Return(Text(EmptyObject))

\* lines 150-152
fetch_data_json(s, net) ==
    LET raw == fetch_data_raw(s, net)
    IN  IF raw.exc # "none" THEN raw ELSE json_loads(raw.val)

\* lines 154-156
fetch_data(s, net) ==
    LET struct == fetch_data_json(s, net)
    IN  IF struct.exc # "none" THEN struct ELSE EyesData(struct.val)

\* OpenIrisClient.__enter__, lines 158-160
Enter ==
    /\ sock = "open"
    /\ ~connected
    /\ connected' = TRUE
    /\ UNCHANGED <<pc, scriptVars, sock, polls, results>>

\* OpenIrisClient.__exit__, lines 162-167
Exit ==
    /\ sock = "open"
    /\ sock' = "closed"
    /\ connected' = FALSE
    /\ UNCHANGED <<pc, scriptVars, polls, results>>

MaxPolls == 2

\* one frame of an eye with n corneal reflections
Eye(n) ==
    Object([FrameNumber |-> 7,
            Pupil |-> [Center |-> [X |-> 3, Y |-> 4], Size |-> [Width |-> 2, Height |-> 5]],
            CRs |-> [i \in 1..n |-> [X |-> i, Y |-> 10 + i]]])

Datagrams ==
    {Bytes(Text(Object([Left |-> Eye(n), Right |-> Eye(4)]))) : n \in {0, 1, 4}}
        \cup {Bytes(Text(Object([Left |-> EmptyObject, Right |-> Eye(1)]))),
              Bytes(Text(Object([Left |-> Eye(1)]))),
              Bytes(Text(EmptyObject)),
              Bytes(Text(Null)),
              Bytes(Malformed),
              NotUtf8}

NetOutcomes ==
    {SendFails, RecvFails("timeout"), RecvFails("ConnectionRefusedError")}
        \cup {Delivers(b) : b \in Datagrams}

\* OpenIrisClient.fetch_data, lines 154-156, under one behaviour of the network
FetchData ==
    /\ sock # "none"
    /\ Len(polls) < MaxPolls
    /\ \E net \in NetOutcomes :
           /\ polls' = Append(polls, net)
           /\ results' = Append(results, fetch_data(sock, net))
    /\ UNCHANGED <<pc, scriptVars, sock, connected>>

\* OpenIrisClient.__init__, lines 133-137
InitUDP ==
    /\ pc = "client"
    /\ TablesUnread
    /\ wavelengths = None
    /\ CalibrationUnbound
    /\ illuminator_spectral_irradiance = None
    /\ total_calculated_irradiance = None
    /\ IRUnbound
    /\ illuminator_distance = None
    /\ illuminator_diameter = None
    /\ GeometryUnbound
    /\ illuminator_spectral_radiance = None
    /\ RetinalUnbound
    /\ wavelength_nm = None
    /\ r_lambda = None
    /\ sock = "open"
    /\ connected = FALSE
    /\ polls = <<>>
    /\ results = <<>>

NextUDP == Enter \/ FetchData \/ Exit

SpecUDP == InitUDP /\ [][NextUDP]_vars

(***************************************************************************)
(* Properties                                                              *)
(***************************************************************************)
\* how many of the six range conditions hold at w
CondCount(w) ==
    Cardinality({k \in 1..6 :
        <<cond1(w), cond2(w), cond3(w), cond4(w), cond5(w), cond6(w)>>[k]})

\* lo <= w <= hi  and  lo < w <= hi  for a finite rational w, by integers
Within(w, lo, hi) == IsFinite(w) /\ lo * w[2] <= w[1] /\ w[1] <= hi * w[2]
Above(w, lo, hi) == IsFinite(w) /\ lo * w[2] < w[1] /\ w[1] <= hi * w[2]
Outside(w, lo, hi) ==
    \/ w = NegInf
    \/ w = PosInf
    \/ IsFinite(w) /\ (w[1] < lo * w[2] \/ w[1] > hi * w[2])

Returned == pc = "R_return"
Arg(i) == wavelength_nm.data[i]
Ret(i) == r_lambda.data[i]
ArgIndices == 1..Len(wavelength_nm.data)

\* C1: the six range conditions of R partition [380, 1400] nm: at every
\* wavelength in [380, 1400] exactly one holds, the boundaries 500, 700, 1050,
\* 1150 and 1200 included; below 380 and above 1400 none holds and R is 0.
C1_RangesPartition ==
    Returned =>
        \A i \in ArgIndices :
            /\ Within(Arg(i), 380, 1400) => CondCount(Arg(i)) = 1
            /\ Outside(Arg(i), 380, 1400) =>
                   CondCount(Arg(i)) = 0 /\ Ret(i) = QInt(0)

C1_Witness ==
    /\ Returned
    /\ wavelength_nm = Scalar(QInt(1200))
    /\ cond5(QInt(1200)) /\ ~cond6(QInt(1200))
    /\ r_lambda = Scalar(Q(2, 100))

\* C7: R(500) = 1 and R(700) = 1, both from the closed range [500, 700] alone;
\* just above 700 nm the (700, 1050] range applies and R stays within
\* (ln 10 / 500) (w - 700) of 1, up to the rounding of R: R is continuous at 700.
C7_ContinuousAt700 ==
    Returned =>
        \A i \in ArgIndices :
            /\ Arg(i) \in {QInt(500), QInt(700)} =>
                   /\ Ret(i) = QInt(1)
                   /\ cond2(Arg(i)) /\ ~cond1(Arg(i)) /\ ~cond3(Arg(i))
            /\ Above(Arg(i), 700, 705) =>
                   /\ cond3(Arg(i)) /\ ~cond2(Arg(i))
                   /\ QLe(Ret(i), QInt(1))
                   /\ QLe(QSub(QInt(1), Ret(i)),
                          QAdd(QMul(Q(47, 10000), QSub(Arg(i), QInt(700))), Q(1, 10000)))

C7_Witness ==
    /\ Returned
    /\ wavelength_nm = Scalar(Q(700 * WRes + 1, WRes))
    /\ QGt(Ret(1), Q(99, 100))
    /\ QLt(Ret(1), QInt(1))

\* C8: R(1050) comes from the (700, 1050] range and is 10^(-0.7) = 0.1995 to four
\* decimals; everywhere in (1050, 1150] R is 0.2: a step of 0.0005 (0.25 % of
\* 0.2) at 1050 nm.
C8_StepAt1050 ==
    Returned =>
        \A i \in ArgIndices :
            /\ Arg(i) = QInt(1050) =>
                   /\ cond3(Arg(i)) /\ ~cond4(Arg(i))
                   /\ Ret(i) = Q(1995, 10000)
                   /\ QSub(Q(2, 10), Ret(i)) = Q(5, 10000)
            /\ Above(Arg(i), 1050, 1150) =>
                   /\ cond4(Arg(i)) /\ ~cond3(Arg(i))
                   /\ Ret(i) = Q(2, 10)

C8_Witness ==
    /\ Returned
    /\ wavelength_nm = Array(<<QInt(1050), Q(1050 * WRes + 1, WRes)>>)
    /\ r_lambda = Array(<<Q(1995, 10000), Q(2, 10)>>)

IRDecided == ir_verdict # "none"

\* total < 100, decided on the numerator and denominator of the total
BelowIRLimit(total) ==
    \/ total = NegInf
    \/ IsFinite(total) /\ total[1] < irradiance_limit_indefinite * total[2]

\* C2: the IR verdict is Safe exactly when the summed IR irradiance is strictly
\* below 100 W/m^2 and Hazardous otherwise; a total of exactly 100 is Hazardous
\* and every total gets exactly one of the two verdicts.
C2_IRVerdict ==
    IRDecided =>
        /\ ir_verdict \in {"Safe", "Hazardous"}
        /\ ir_verdict = "Safe" <=> BelowIRLimit(total_ir_irradiance)
        /\ total_ir_irradiance = QInt(100) => ir_verdict = "Hazardous"

C2_Witness ==
    /\ IRDecided
    /\ total_ir_irradiance = QInt(100)
    /\ ir_verdict = "Hazardous"

\* C3: a Safe IR verdict reports the margin 100 / total; a total of 50 W/m^2 is
\* Safe with a margin of exactly 2.
C3_IRMargin ==
    IRDecided =>
        /\ ir_verdict = "Safe" /\ IsFinite(total_ir_irradiance)
                /\ total_ir_irradiance[1] # 0 =>
               /\ IsFinite(safety_margin)
               /\ safety_margin[1] * total_ir_irradiance[1]
                      = 100 * safety_margin[2] * total_ir_irradiance[2]
        /\ ir_verdict = "Safe" /\ total_ir_irradiance = QInt(0) =>
               safety_margin = PosInf
        /\ total_ir_irradiance = QInt(50) =>
               ir_verdict = "Safe" /\ safety_margin = QInt(2)

C3_Witness ==
    /\ IRDecided
    /\ total_ir_irradiance = QInt(50)
    /\ ir_verdict = "Safe"
    /\ safety_margin = <<2, 1>>

\* the largest integer <= t and the smallest integer >= t of a finite t >= 0
Floor(t) == t[1] \div t[2]
Ceil(t) == (t[1] + t[2] - 1) \div t[2]
Cube(n) == n * n * n

\* 18000 / total is a whole number q
WholeRatio(total) ==
    IsFinite(total) /\ total[1] > 0 /\ (18000 * total[2]) % total[1] = 0

\* C4 as stated: a total of 200 W/m^2 is Hazardous with a maximum exposure time
\* of about 38.6 s.
C4_Original ==
    IRDecided /\ total_ir_irradiance = QInt(200) =>
        /\ ir_verdict = "Hazardous"
        /\ QGe(maximum_exposure_time, Q(385, 10))
        /\ QLe(maximum_exposure_time, Q(387, 10))

\* C4: a Hazardous IR verdict reports t = (total / 18000)^(-4/3) seconds, that is
\* t^3 = (18000 / total)^4 up to the two decimals t is kept to; an infinite total
\* gives 0 s; a total of 200 W/m^2 is Hazardous with t = 90^(4/3) = 403.3 s.
C4_MaxExposureTime ==
    IRDecided =>
        /\ ir_verdict = "Hazardous" /\ WholeRatio(total_ir_irradiance) =>
               LET q == (18000 * total_ir_irradiance[2]) \div total_ir_irradiance[1]
                   t == maximum_exposure_time
               IN  /\ IsFinite(t) /\ t[1] > 0
                   /\ Cube(Floor(QSub(t, Q(1, 100)))) < q * q * q * q
                   /\ q * q * q * q < Cube(Ceil(QAdd(t, Q(1, 100))))
        /\ total_ir_irradiance = PosInf => maximum_exposure_time = QInt(0)
        /\ total_ir_irradiance = QInt(200) =>
               /\ ir_verdict = "Hazardous"
               /\ QGe(maximum_exposure_time, Q(4033, 10))
               /\ QLe(maximum_exposure_time, Q(4034, 10))

C4_Witness ==
    /\ IRDecided
    /\ total_ir_irradiance = QInt(200)
    /\ ir_verdict = "Hazardous"
    /\ maximum_exposure_time = Q(40333, 100)

RetinalDecided == retinal_verdict # "none"

\* a < b for finite rationals, by cross multiplication
Less(a, b) == IsFinite(a) /\ IsFinite(b) /\ a[1] * b[2] < b[1] * a[2]

\* C5: the retinal limit is 6000 / alpha; the verdict is Safe, with margin
\* limit / weighted, exactly when weighted < limit; for alpha = 0.011 and
\* weighted = 500000 the limit is 545454.5, the verdict Safe, the margin 1.09.
C5_RetinalVerdict ==
    RetinalDecided =>
        /\ IsFinite(retinal_hazard_limit)
        /\ QMul(retinal_hazard_limit, alpha) = QInt(6000)
        /\ retinal_verdict \in {"Safe", "Hazardous"}
        /\ retinal_verdict = "Safe"
               <=> Less(weighted_retinal_exposure, retinal_hazard_limit)
        /\ retinal_verdict = "Safe" /\ weighted_retinal_exposure # QInt(0) =>
               QMul(retinal_safety_margin, weighted_retinal_exposure)
                   = retinal_hazard_limit
        /\ retinal_verdict = "Safe" /\ weighted_retinal_exposure = QInt(0) =>
               retinal_safety_margin = PosInf
        /\ alpha = Q(11, 1000) /\ weighted_retinal_exposure = QInt(500000) =>
               /\ Less(Q(5454545, 10), retinal_hazard_limit)
               /\ Less(retinal_hazard_limit, Q(5454546, 10))
               /\ retinal_verdict = "Safe"
               /\ Less(Q(109, 100), retinal_safety_margin)
               /\ Less(retinal_safety_margin, Q(1091, 1000))

C5_Witness ==
    /\ RetinalDecided
    /\ alpha = Q(11, 1000)
    /\ weighted_retinal_exposure = QInt(500000)
    /\ retinal_hazard_limit = Q(6000000, 11)
    /\ retinal_verdict = "Safe"
    /\ retinal_safety_margin = Q(12, 11)

\* C6: a hazard result carries a safety margin iff its verdict is Safe and a
\* maximum exposure time iff it is the IR result and its verdict is Hazardous; a
\* Hazardous retinal result carries neither, and the retinal evaluation leaves
\* the exposure time of the IR result as it was.
C6_ResultFields ==
    /\ ~IRDecided => safety_margin = None /\ maximum_exposure_time = None
    /\ IRDecided =>
           /\ safety_margin # None <=> ir_verdict = "Safe"
           /\ maximum_exposure_time # None <=> ir_verdict = "Hazardous"
    /\ ~RetinalDecided => retinal_safety_margin = None
    /\ RetinalDecided =>
           /\ retinal_safety_margin # None <=> retinal_verdict = "Safe"
           /\ retinal_verdict = "Hazardous" =>
                  ~Less(weighted_retinal_exposure, retinal_hazard_limit)

C6_Witness ==
    /\ pc = "done"
    /\ ir_verdict = "Safe"
    /\ safety_margin # None
    /\ retinal_verdict = "Hazardous"
    /\ IsFinite(weighted_retinal_exposure)
    /\ ~Less(weighted_retinal_exposure, retinal_hazard_limit)
    /\ retinal_safety_margin = None
    /\ maximum_exposure_time = None

Synthesized == illuminator_spectral_irradiance # None

\* the calibration is well defined: a finite, nonzero denominator
Calibrated == Synthesized /\ IsFinite(denominator) /\ denominator[1] # 0

RECURSIVE MaxAbs(_)
MaxAbs(xs) ==
    IF Len(xs) = 0 THEN QInt(0)
    ELSE LET h == IF QLt(Head(xs), QInt(0)) THEN QNeg(Head(xs)) ELSE Head(xs)
             t == MaxAbs(Tail(xs))
         IN  IF QLt(h, t) THEN t ELSE h

\* |a - b| for finite a and b
Distance(a, b) == IF QLt(a, b) THEN QSub(b, a) ELSE QSub(a, b)

\* C10 as stated: the left Riemann sum of the synthesized spectral irradiance
\* over the full grid is within one cell (dw times the largest sample) of
\* measured_power.
C10_Original ==
    Calibrated =>
        QLe(Distance(total_calculated_irradiance, measured_power),
            QMul(QInt(dw), MaxAbs(illuminator_spectral_irradiance)))

\* C10: with a finite nonzero denominator, the synthesized spectral irradiance
\* weighted by the normalized sensor sensitivity and summed with the same
\* left Riemann convention is measured_power / sensor_area exactly, whatever dw
\* is; the unweighted sum is that irradiance divided by the illuminator-weighted
\* mean sensitivity.
C10_RoundTrip ==
    Calibrated =>
        /\ QMul(Dot(illuminator_spectral_irradiance, sensor_sensitivity), QInt(dw))
               = QDiv(measured_power, sensor_area)
        /\ QMul(total_calculated_irradiance, Dot(illuminator_interp, sensor_sensitivity))
               = QMul(QDiv(measured_power, sensor_area), QSum(illuminator_interp))

C10_Witness ==
    /\ pc = "ir_sum"
    /\ Calibrated
    /\ Len(wavelengths) >= 2
    /\ \E i \in 1..Len(sensor_sensitivity) : sensor_sensitivity[i] # QInt(1)
    /\ QGt(total_calculated_irradiance, QMul(QInt(1000), measured_power))

\* diameter / distance < 0.011 for positive finite rationals, by integers
SubtendsLess(diameter, distance) ==
    1000 * diameter[1] * distance[2] < 11 * diameter[2] * distance[1]

\* C9: the clamp acts iff diameter / distance < 0.011: it then reports the angle
\* 0.011 rad and the diameter 0.011 * distance, and otherwise diameter / distance
\* with the diameter unchanged; applied again to the reported diameter and the
\* same distance it reports the same pair, and the angle is never below 0.011.
C9_Clamp ==
    [][pc = "clamp" =>
          LET D == illuminator_diameter
              d == illuminator_distance
          IN  /\ SubtendsLess(D, d) =>
                     /\ illuminator_angle' = Q(11, 1000)
                     /\ illuminator_diameter' = Q(11 * d[1], 1000 * d[2])
              /\ ~SubtendsLess(D, d) =>
                     /\ illuminator_angle' = Q(D[1] * d[2], D[2] * d[1])
                     /\ illuminator_diameter' = D
              /\ illuminator_distance' = d
              /\ AngularSubtense(illuminator_diameter', d)
                     = [angle |-> illuminator_angle', diameter |-> illuminator_diameter']
              /\ ~Less(illuminator_angle', Q(11, 1000))
      ]_vars

C9_Witness ==
    /\ pc = "solid_angle"
    /\ illuminator_distance = Q(1, 4)
    /\ illuminator_angle = Q(11, 1000)
    /\ illuminator_diameter = Q(11, 4000)
    /\ illuminator_solid_angle = None

\* the denominator is zero, negative or not finite
BadDenominator(den) == ~IsFinite(den) \/ den[1] <= 0

\* C11: whenever the denominator is zero, negative or not finite the scaling
\* fails: no scaling factor is produced, no irradiance is synthesized and no
\* hazard verdict follows.
C11_FailsOnBadDenominator ==
    denominator # None /\ BadDenominator(denominator) =>
        /\ scaling_factor_I = None
        /\ illuminator_spectral_irradiance = None
        /\ ir_verdict = "none"
        /\ retinal_verdict = "none"

\* C12: R evaluated on a single wavelength gives the value that a batch
\* evaluation gives at every position holding that wavelength; the result has
\* the shape of the argument.
C12_ScalarEqualsBatch ==
    Returned =>
        /\ r_lambda.ndim = wavelength_nm.ndim
        /\ Len(r_lambda.data) = Len(wavelength_nm.data)
        /\ \A i \in ArgIndices :
               /\ Ret(i) = retinal_burn_hazard_function(Scalar(Arg(i))).data[1]
               /\ Ret(i) = RElem(Arg(i))

C12_Witness ==
    /\ Returned
    /\ wavelength_nm = Array(<<Q(700 * WRes + 1, WRes), QInt(1050)>>)
    /\ Ret(2) = Q(1995, 10000)
    /\ Ret(1) # Ret(2)
    /\ Ret(1) = retinal_burn_hazard_function(Scalar(Arg(1))).data[1]

\* the sum of xs[i] * dw over the positions i with keep[i], one term per position
RiemannSum(xs, keep) ==
    LET RECURSIVE S(_)
        S(i) == IF i = 0 THEN QInt(0)
                ELSE QAdd(S(i - 1), IF keep[i] THEN QMul(xs[i], QInt(dw)) ELSE QInt(0))
    IN  S(Len(xs))

GridBuilt == wavelengths # None
GridIndices == 1..Len(wavelengths)
Everywhere == [i \in GridIndices |-> TRUE]
InBand(lo, hi) == [i \in GridIndices |-> Within(wavelengths[i], lo, hi)]

\* C13: the grid is w0, w0 + dw, ... up to but excluding w1, and every summed
\* quantity is a left Riemann sum over it: each grid point contributes its value
\* times dw; the IR total takes exactly the grid points in [700, 3000] and the
\* weighted retinal sum exactly those in [780, 1400], bounds included.
C13_LeftRiemann ==
    GridBuilt =>
        /\ \A i \in GridIndices :
               /\ wavelengths[i] = QInt(w0 + (i - 1) * dw)
               /\ w0 + (i - 1) * dw < w1
        /\ w0 + Len(wavelengths) * dw >= w1
        /\ denominator # None =>
               denominator =
                   QMul(RiemannSum([i \in GridIndices |->
                                       QMul(illuminator_interp[i], sensor_sensitivity[i])],
                                   Everywhere),
                        sensor_area)
        /\ total_calculated_irradiance # None =>
               total_calculated_irradiance =
                   RiemannSum(illuminator_spectral_irradiance, Everywhere)
        /\ total_ir_irradiance # None =>
               total_ir_irradiance =
                   RiemannSum(illuminator_spectral_irradiance, InBand(700, 3000))
        /\ weighted_retinal_exposure # None =>
               weighted_retinal_exposure =
                   RiemannSum([i \in GridIndices |->
                                  QMul(illuminator_spectral_radiance[i],
                                       RElem(wavelengths[i]))],
                              InBand(780, 1400))

\* a grid holding the IR band's upper bound 3000 nm, with all the power there:
\* that point is summed, and w1 = 3005 is no grid point
C13_Witness ==
    /\ pc = "done"
    /\ w0 = 2995 /\ w1 = 3005
    /\ wavelengths = <<QInt(2995), QInt(3000)>>
    /\ illuminator_interp = <<QInt(0), QInt(1)>>
    /\ IsFinite(total_ir_irradiance) /\ total_ir_irradiance[1] > 0
    /\ total_ir_irradiance = total_calculated_irradiance
    /\ weighted_retinal_exposure = QInt(0)

\* C14: the clamp comes first: when diameter / distance < 0.011 the clamp
\* replaces the diameter by 0.011 * distance and the angle by 0.011, and the
\* solid angle, the spectral radiance and the retinal limit are computed after
\* it from the replaced values, never from the measured diameter or angle.
C14_ClampFirst ==
    [][/\ pc = "clamp" =>
              /\ illuminator_solid_angle = None /\ alpha = None
              /\ illuminator_spectral_radiance = None /\ retinal_hazard_limit = None
              /\ SubtendsLess(illuminator_diameter, illuminator_distance) =>
                     /\ illuminator_angle' = Q(11, 1000)
                     /\ illuminator_diameter' = QMul(Q(11, 1000), illuminator_distance)
       /\ pc = "solid_angle" =>
              /\ ~SubtendsLess(illuminator_diameter, illuminator_distance)
              /\ illuminator_angle = QDiv(illuminator_diameter, illuminator_distance)
              /\ illuminator_solid_angle' =
                     SolidAngle(illuminator_distance, illuminator_diameter)
              /\ alpha' = illuminator_angle
              /\ illuminator_angle = Q(11, 1000) =>
                     illuminator_solid_angle' = Q(95, 1000 * 1000)
       /\ pc = "radiance" =>
              \A i \in 1..Len(illuminator_spectral_irradiance) :
                  illuminator_spectral_radiance'[i] =
                      QDiv(illuminator_spectral_irradiance[i],
                           SolidAngle(illuminator_distance, illuminator_diameter))
       /\ pc = "retinal_limit" =>
              /\ alpha = QDiv(illuminator_diameter, illuminator_distance)
              /\ ~Less(alpha, Q(11, 1000))
              /\ QMul(retinal_hazard_limit', alpha) = QInt(6000)
      ]_vars

\* the geometry measured as 4 mm at 1 m (0.004 rad), evaluated as 11 mm at 1 m
C14_Witness ==
    /\ pc = "done"
    /\ illuminator_distance = QInt(1)
    /\ illuminator_diameter = Q(11, 1000)
    /\ alpha = Q(11, 1000)
    /\ illuminator_solid_angle = Q(95, 1000 * 1000)
    /\ illuminator_solid_angle # SolidAngle(QInt(1), Q(1, 250))
    /\ retinal_hazard_limit = Q(6000000, 11)

\* the send or the receive of a poll failed or timed out
PollFailed(net) == net.send # "ok" \/ net.recv # "ok"

\* C15: whenever the send or the receive of a poll fails or times out,
\* fetch_data does not raise: it returns an EyesData with error 'No Data' whose
\* left and right eyes are the default records (frame number 0, all points
\* (0, 0), both errors 'No Data'); the socket is as it was and the client can be
\* polled again.
C15_NoDataOnFailure ==
    /\ Len(results) = Len(polls)
    /\ \A i \in 1..Len(polls) :
           PollFailed(polls[i]) =>
               /\ results[i].exc = "none"
               /\ results[i].val.error = "No Data"
               /\ \A eye \in {results[i].val.left, results[i].val.right} :
                      /\ eye.frame_number = 0
                      /\ eye.pupil = [x |-> 0, y |-> 0]
                      /\ eye.cr = [x |-> 0, y |-> 0]
                      /\ eye.p4 = [x |-> 0, y |-> 0]
                      /\ eye.pupil_area = 0
                      /\ eye.cr_error = "No Data"
                      /\ eye.p4_error = "No Data"
    /\ sock = "open" /\ Len(polls) < MaxPolls => ENABLED FetchData

\* a poll that timed out, then a poll on the same client that returned a frame
C15_Witness ==
    /\ sock = "open"
    /\ Len(results) = 2
    /\ polls[1] = RecvFails("timeout")
    /\ results[1].exc = "none"
    /\ results[1].val.error = "No Data"
    /\ results[2].exc = "none"
    /\ results[2].val.error = ""
    /\ results[2].val.left.frame_number = 7

=============================================================================
